---- MODULE Spec2Model ----
(***************************************************************************)
(* Model of src/main.py: the report pipeline generate_interactive_report   *)
(* (read the template, aggregate mean scores, build five grouped bar       *)
(* charts, render the template, write the report file).                    *)
(*                                                                         *)
(* Representation choices:                                                 *)
(*  - a category label (a str) is the sequence of its code points, so that *)
(*    sorted() is the lexicographic order of Python strings;               *)
(*  - a mean (a float) is the exact fraction sum/count in lowest terms,    *)
(*    [num, den]; the default 0 of dict.get is the fraction 0/1;           *)
(*  - a template is the sequence of its tokens: literal text, a            *)
(*    {{ name }} placeholder, or a malformed tag;                          *)
(*  - a document (rendered text, file content) is a sequence of pieces.    *)
(***************************************************************************)
EXTENDS Integers, Sequences, FiniteSets, TLC

VARIABLES data, template_file, fs_output, fs_before, pc, template_content,
          categories, means, charts, html_report, error

vars == <<data, template_file, fs_output, fs_before, pc, template_content,
          categories, means, charts, html_report, error>>

\* ------------------------------------------------------------------ bounds
MaxRows == 2
MaxTemplateLen == 2

\* ------------------------------------------------------------- input table
RequiredColumns == {"NIVEL", "CARGO", "CATEGORIA", "PONTUACAO"}

LevelLabels == {"Junior", "Pleno", "Sênior"}

TrackLabels == {"ENGENHARIA DE DADOS", "ENGENHARIA DE ANALYTICS"}

\* two labels whose lexicographic order differs from their order by length
CategoryLabels == {<<1, 2>>, <<2>>}

ScoreValues == {10, 20}

RowValues == [NIVEL : LevelLabels, CARGO : TrackLabels,
              CATEGORIA : CategoryLabels, PONTUACAO : ScoreValues]

RECURSIVE SeqsUpTo(_, _)
SeqsUpTo(S, n) ==
    IF n = 0 THEN {<<>>}
    ELSE LET shorter == SeqsUpTo(S, n - 1)
         IN  shorter \cup {Append(s, e) : s \in {t \in shorter : Len(t) = n - 1}, e \in S}

\* a DataFrame: its columns and its rows in file order
Tables(n) == [columns : {RequiredColumns}, rows : SeqsUpTo(RowValues, n)]

\* a DataFrame that lacks one required column (header-only: the KeyError
\* does not depend on the rows)
ShapelessTables == [columns : {RequiredColumns \ {c} : c \in RequiredColumns},
                    rows : {<<>>}]

\* ------------------------------------------------------------ pure helpers
RECURSIVE LexLess(_, _)
\* Python's str.__lt__: code point by code point, a proper prefix is smaller
LexLess(a, b) ==
    IF b = <<>> THEN FALSE
    ELSE IF a = <<>> THEN TRUE
    ELSE IF Head(a) # Head(b) THEN Head(a) < Head(b)
    ELSE LexLess(Tail(a), Tail(b))

RECURSIVE unique(_)
\* Series.unique(): the distinct values in order of first appearance
unique(s) ==
    IF s = <<>> THEN <<>>
    ELSE LET front == unique(SubSeq(s, 1, Len(s) - 1))
             last  == s[Len(s)]
         IN  IF \E i \in 1..Len(front) : front[i] = last THEN front
             ELSE Append(front, last)

RECURSIVE InsertSorted(_, _)
InsertSorted(s, e) ==
    IF s = <<>> THEN <<e>>
    ELSE IF LexLess(e, Head(s)) THEN <<e>> \o s
    ELSE <<Head(s)>> \o InsertSorted(Tail(s), e)

\* mutant: the ordering is left in order of first appearance
sorted_skipped(s) == s

RECURSIVE sorted(_)
\* sorted(): a stable comparison sort by <
sorted(s) ==
    IF s = <<>> THEN <<>>
    ELSE InsertSorted(sorted(SubSeq(s, 1, Len(s) - 1)), s[Len(s)])

Column(rows, name) == [i \in 1..Len(rows) |-> rows[i][name]]

\* data[data[column] == value]
FilterEq(rows, column, value) ==
    LET keep(r) == r[column] = value IN SelectSeq(rows, keep)

RECURSIVE SumSeq(_)
SumSeq(s) == IF s = <<>> THEN 0 ELSE Head(s) + SumSeq(Tail(s))

RECURSIVE GCD(_, _)
GCD(a, b) == IF b = 0 THEN a ELSE GCD(b, a % b)

\* the float a / b, kept exact
Fraction(a, b) == LET g == GCD(a, b) IN [num |-> a \div g, den |-> b \div g]

Zero == [num |-> 0, den |-> 1]

\* Series.mean()
mean(s) == Fraction(SumSeq(s), Len(s))

\* groupby(category_column)['PONTUACAO'].mean().to_dict()
GroupMean(rows) ==
    LET groups == {rows[i].CATEGORIA : i \in 1..Len(rows)}
    IN  [c \in groups |-> mean(Column(FilterEq(rows, "CATEGORIA", c), "PONTUACAO"))]

\* mutant: the level filter is dropped
calculate_mean_scores_any_level(rows, level) == GroupMean(rows)

\* mutant: one key per category of the unfiltered frame, 0 where no row matches
calculate_mean_scores_all_keys(rows, level) ==
    LET kept == FilterEq(rows, "NIVEL", level)
    IN  [c \in {rows[i].CATEGORIA : i \in 1..Len(rows)} |->
            IF FilterEq(kept, "CATEGORIA", c) = <<>> THEN Zero
            ELSE mean(Column(FilterEq(kept, "CATEGORIA", c), "PONTUACAO"))]

calculate_mean_scores(rows, level) == GroupMean(FilterEq(rows, "NIVEL", level))

\* ------------------------------------------------------------------ charts
\* mutant: a label absent from the mapping is skipped instead of zero-filled
Series_skip_absent(mapping, labels) ==
    LET present(l) == l \in DOMAIN mapping
        kept == SelectSeq(labels, present)
    IN  [i \in 1..Len(kept) |-> mapping[kept[i]]]

Series(mapping, labels) ==
    [i \in 1..Len(labels) |->
        IF labels[i] \in DOMAIN mapping THEN mapping[labels[i]] ELSE Zero]

Layout(title, yaxis_title) ==
    [title |-> title, yaxis_title |-> yaxis_title, barmode |-> "group",
     xaxis_tickangle |-> -45]

Bar(x, y, name) == [x |-> x, y |-> y, name |-> name]

\* to_html(fig, full_html=False): a fragment holding the figure
to_html(fig) == [div |-> fig]

create_bar_chart(data1, data2, labels, title, yaxis_title) ==
    to_html([traces |-> <<Bar(labels, Series(data1, labels), "Juniors"),
                          Bar(labels, Series(data2, labels), "Seniors")>>,
             layout |-> Layout(title, yaxis_title)])

create_senior_comparison_chart(data_senior_data, data_senior_analytics, labels, title, yaxis_title) ==
    to_html([traces |-> <<Bar(labels, Series(data_senior_data, labels),
                              "Data Engineers Senior"),
                          Bar(labels, Series(data_senior_analytics, labels),
                              "Analytics Engineers Senior")>>,
             layout |-> Layout(title, yaxis_title)])

\* the six aggregation calls, in the order the code makes them
MeanCalls ==
    << [var |-> "junior_data",      cargo |-> "ENGENHARIA DE DADOS",     level |-> "Junior"],
       [var |-> "senior_data",      cargo |-> "ENGENHARIA DE DADOS",     level |-> "Sênior"],
       [var |-> "junior_analytics", cargo |-> "ENGENHARIA DE ANALYTICS", level |-> "Junior"],
       [var |-> "senior_analytics", cargo |-> "ENGENHARIA DE ANALYTICS", level |-> "Sênior"],
       [var |-> "pleno_data",       cargo |-> "ENGENHARIA DE DADOS",     level |-> "Pleno"],
       [var |-> "pleno_analytics",  cargo |-> "ENGENHARIA DE ANALYTICS", level |-> "Pleno"] >>

\* mutant: the second chart is given the entry-level mapping
ChartCalls_entry_for_mid ==
    << [var |-> "junior_senior_chart_data", fn |-> "create_bar_chart",
        data1 |-> "junior_data", data2 |-> "senior_data",
        title |-> "Comparação de Pontuação Média: Juniors vs Seniors (Data Engineers)"],
       [var |-> "pleno_senior_chart_data", fn |-> "create_bar_chart",
        data1 |-> "junior_data", data2 |-> "senior_data",
        title |-> "Comparação de Pontuação Média: Plenos vs Seniors (Data Engineers)"],
       [var |-> "junior_senior_chart_analytics", fn |-> "create_bar_chart",
        data1 |-> "junior_analytics", data2 |-> "senior_analytics",
        title |-> "Comparação de Pontuação Média: Juniors vs Seniors (Analytics Engineers)"],
       [var |-> "pleno_senior_chart_analytics", fn |-> "create_bar_chart",
        data1 |-> "pleno_analytics", data2 |-> "senior_analytics",
        title |-> "Comparação de Pontuação Média: Plenos vs Seniors (Analytics Engineers)"],
       [var |-> "senior_comparison_chart", fn |-> "create_senior_comparison_chart",
        data1 |-> "senior_data", data2 |-> "senior_analytics",
        title |-> "Comparação de Pontuação Média: Seniors (Data vs Analytics Engineers)"] >>

\* the five chart calls, in the order the code makes them
ChartCalls ==
    << [var |-> "junior_senior_chart_data", fn |-> "create_bar_chart",
        data1 |-> "junior_data", data2 |-> "senior_data",
        title |-> "Comparação de Pontuação Média: Juniors vs Seniors (Data Engineers)"],
       [var |-> "pleno_senior_chart_data", fn |-> "create_bar_chart",
        data1 |-> "pleno_data", data2 |-> "senior_data",
        title |-> "Comparação de Pontuação Média: Plenos vs Seniors (Data Engineers)"],
       [var |-> "junior_senior_chart_analytics", fn |-> "create_bar_chart",
        data1 |-> "junior_analytics", data2 |-> "senior_analytics",
        title |-> "Comparação de Pontuação Média: Juniors vs Seniors (Analytics Engineers)"],
       [var |-> "pleno_senior_chart_analytics", fn |-> "create_bar_chart",
        data1 |-> "pleno_analytics", data2 |-> "senior_analytics",
        title |-> "Comparação de Pontuação Média: Plenos vs Seniors (Analytics Engineers)"],
       [var |-> "senior_comparison_chart", fn |-> "create_senior_comparison_chart",
        data1 |-> "senior_data", data2 |-> "senior_analytics",
        title |-> "Comparação de Pontuação Média: Seniors (Data vs Analytics Engineers)"] >>

\* the value of a local variable holding a score mapping
Local(bound, name) ==
    LET i == CHOOSE i \in 1..Len(bound) : bound[i].var = name IN bound[i].value

\* ---------------------------------------------------------------- template
ChartNames == {ChartCalls[i].var : i \in 1..Len(ChartCalls)}

\* the keyword arguments of template.render: each chart under its own name
RenderContext == ChartNames

Text(s) == [kind |-> "text", value |-> s]

Placeholder(name) == [kind |-> "var", value |-> name]

Malformed == [kind |-> "malformed", value |-> "{{"]

Markup(m) == [kind |-> "markup", value |-> m]

\* the template the report is meant for: the five placeholders between text
StandardTemplate ==
    << Text("<html>"),
       Placeholder("junior_senior_chart_data"),
       Placeholder("pleno_senior_chart_data"),
       Placeholder("junior_senior_chart_analytics"),
       Placeholder("pleno_senior_chart_analytics"),
       Placeholder("senior_comparison_chart"),
       Text("</html>") >>

TemplateTokens ==
    {Text("<p>"), Malformed, Placeholder("extra_chart")}
        \cup {Placeholder(n) : n \in ChartNames}

SmallTemplates == SeqsUpTo(TemplateTokens, MaxTemplateLen)

\* Template(source): jinja2 compiles the source and rejects malformed syntax
TemplateCompiles(source) == \A i \in 1..Len(source) : source[i].kind # "malformed"

RECURSIVE render_keep_unbound(_, _)
\* mutant: an unbound placeholder is left in the document as it was written
render_keep_unbound(source, built) ==
    IF source = <<>> THEN <<>>
    ELSE LET tok == Head(source)
             rest == render_keep_unbound(Tail(source), built)
         IN  IF tok.kind = "var" /\ tok.value \in RenderContext
             THEN <<Markup(Local(built, tok.value))>> \o rest
             ELSE <<tok>> \o rest

RECURSIVE render(_, _)
\* template.render(**context): text is copied, a placeholder bound by the
\* context becomes its value, an unbound one is jinja2's default Undefined,
\* which prints as the empty string
render(source, built) ==
    IF source = <<>> THEN <<>>
    ELSE LET tok == Head(source)
             rest == render(Tail(source), built)
         IN  IF tok.kind = "text" THEN <<tok>> \o rest
             ELSE IF tok.kind = "var" /\ tok.value \in RenderContext
                  THEN <<Markup(Local(built, tok.value))>> \o rest
             ELSE rest

\* -------------------------------------------------------------- file system
Absent == [exists |-> FALSE, content |-> <<>>]

File(content) == [exists |-> TRUE, content |-> content]

OldReport == File(<<Text("previous report")>>)

\* -------------------------------------------------------------------- Init
NoTemplate == Absent

\* the inputs explored: every table up to MaxRows rows with the standard
\* template or none, and every header-only table with every small template
Inputs ==
    ([table : Tables(MaxRows), template : {NoTemplate, File(StandardTemplate)},
      output : {Absent, OldReport}])
    \cup
    ([table : Tables(0) \cup ShapelessTables,
      template : {NoTemplate} \cup {File(t) : t \in SmallTemplates},
      output : {Absent, OldReport}])

Init ==
    \E in \in Inputs :
        /\ data = in.table
        /\ template_file = in.template
        /\ fs_output = in.output
        /\ fs_before = in.output
        /\ pc = "read_template"
        /\ template_content = <<>>
        /\ categories = <<>>
        /\ means = <<>>
        /\ charts = <<>>
        /\ html_report = <<>>
        /\ error = "none"

Raise(kind) == pc' = "error" /\ error' = kind

\* mutant: a missing template is read as an empty one and the run goes on
read_template_swallow ==
    /\ pc = "read_template"
    /\ template_content' = template_file.content
    /\ pc' = "categories"
    /\ UNCHANGED <<data, template_file, fs_output, fs_before, categories, means,
                   charts, html_report, error>>

\* line 98: template_content = read_template(template_path)
read_template ==
    /\ pc = "read_template"
    /\ IF template_file.exists
       THEN /\ template_content' = template_file.content
            /\ pc' = "categories"
            /\ UNCHANGED error
       ELSE /\ Raise("FileNotFoundError")
            /\ UNCHANGED template_content
    /\ UNCHANGED <<data, template_file, fs_output, fs_before, categories, means,
                   charts, html_report>>

\* line 101: categories = sorted(data['CATEGORIA'].unique())
compute_categories ==
    /\ pc = "categories"
    /\ IF "CATEGORIA" \in data.columns
       THEN /\ categories' = sorted(unique(Column(data.rows, "CATEGORIA")))
            /\ pc' = "means"
            /\ UNCHANGED error
       ELSE /\ Raise("KeyError")
            /\ UNCHANGED categories
    /\ UNCHANGED <<data, template_file, fs_output, fs_before, template_content,
                   means, charts, html_report>>

\* mutant: the aggregation divides by the row count of an empty frame
compute_mean_scores_empty_fails ==
    /\ pc = "means"
    /\ LET call == MeanCalls[Len(means) + 1]
       IN  IF data.rows = <<>>
           THEN /\ Raise("ZeroDivisionError")
                /\ UNCHANGED means
           ELSE /\ means' = Append(means,
                       [var |-> call.var,
                        value |-> GroupMean(FilterEq(
                                      FilterEq(data.rows, "CARGO", call.cargo),
                                      "NIVEL", call.level))])
                /\ pc' = IF Len(means) + 1 = Len(MeanCalls) THEN "charts" ELSE "means"
                /\ UNCHANGED error
    /\ UNCHANGED <<data, template_file, fs_output, fs_before, template_content,
                   categories, charts, html_report>>

\* lines 102-107: one score mapping per call, track filter then level filter
compute_mean_scores ==
    /\ pc = "means"
    /\ LET call == MeanCalls[Len(means) + 1]
       IN  IF {"CARGO", "NIVEL", "PONTUACAO"} \subseteq data.columns
           THEN /\ means' = Append(means,
                       [var |-> call.var,
                        value |-> calculate_mean_scores(
                                      FilterEq(data.rows, "CARGO", call.cargo),
                                      call.level)])
                /\ pc' = IF Len(means) + 1 = Len(MeanCalls) THEN "charts" ELSE "means"
                /\ UNCHANGED error
           ELSE /\ Raise("KeyError")
                /\ UNCHANGED means
    /\ UNCHANGED <<data, template_file, fs_output, fs_before, template_content,
                   categories, charts, html_report>>

BuildChart(call) ==
    IF call.fn = "create_bar_chart"
    THEN create_bar_chart(Local(means, call.data1), Local(means, call.data2),
                          categories, call.title, "Pontuação Média")
    ELSE create_senior_comparison_chart(Local(means, call.data1),
                                        Local(means, call.data2),
                                        categories, call.title, "Pontuação Média")

\* lines 110-134: one chart per call
build_chart ==
    /\ pc = "charts"
    /\ LET call == ChartCalls[Len(charts) + 1]
       IN  /\ charts' = Append(charts, [var |-> call.var, value |-> BuildChart(call)])
           /\ pc' = IF Len(charts) + 1 = Len(ChartCalls) THEN "render" ELSE "charts"
    /\ UNCHANGED <<data, template_file, fs_output, fs_before, template_content,
                   categories, means, html_report, error>>

\* lines 137-144: template = Template(template_content); template.render(...)
render_template ==
    /\ pc = "render"
    /\ IF TemplateCompiles(template_content)
       THEN /\ html_report' = render(template_content, charts)
            /\ pc' = "open"
            /\ UNCHANGED error
       ELSE /\ Raise("TemplateSyntaxError")
            /\ UNCHANGED html_report
    /\ UNCHANGED <<data, template_file, fs_output, fs_before, template_content,
                   categories, means, charts>>

\* line 147: open(output_path, "w") creates or truncates the file, or fails
open_output ==
    /\ pc = "open"
    /\ \/ /\ fs_output' = File(<<>>)
          /\ pc' = "write"
          /\ UNCHANGED error
       \/ /\ Raise("OSError")
          /\ UNCHANGED fs_output
    /\ UNCHANGED <<data, template_file, fs_before, template_content, categories,
                   means, charts, html_report>>

\* lines 147-150: file.write(html_report), the close at the end of the with
\* block, return output_path; a failing write or flush leaves what reached
\* the file
write_output ==
    /\ pc = "write"
    /\ \/ /\ fs_output' = File(html_report)
          /\ pc' = "done"
          /\ UNCHANGED error
       \/ \E k \in 0..(Len(html_report) - 1) :
              /\ fs_output' = File(SubSeq(html_report, 1, k))
              /\ Raise("OSError")
    /\ UNCHANGED <<data, template_file, fs_before, template_content, categories,
                   means, charts, html_report>>

Next ==
    \/ read_template
    \/ compute_categories
    \/ compute_mean_scores
    \/ build_chart
    \/ render_template
    \/ open_output
    \/ write_output

Spec == Init /\ [][Next]_vars

\* ================================================================== claims
\* the program positions that follow a step of the pipeline: the ordering
\* has just been computed, the aggregation calls are being made, the chart
\* calls are being made, the template has just been rendered
CategoriesComputed == pc = "means" /\ means = <<>>

Aggregating == pc \in {"means", "charts"} /\ charts = <<>>

Charting == pc \in {"charts", "render"}

Rendered == pc = "open"

Finished == pc \in {"done", "error"}

\* the rows of the table that pass both filters, by position
MatchingIn(level, track, c) ==
    {i \in 1..Len(data.rows) :
        /\ data.rows[i].NIVEL = level
        /\ data.rows[i].CARGO = track
        /\ data.rows[i].CATEGORIA = c}

RECURSIVE ScoreSum(_)
ScoreSum(idx) ==
    IF idx = {} THEN 0
    ELSE LET i == CHOOSE j \in idx : TRUE
         IN  data.rows[i].PONTUACAO + ScoreSum(idx \ {i})

\* v is the arithmetic mean of the scores of the rows idx
IsMeanOf(v, idx) == v.den > 0 /\ v.num * Cardinality(idx) = v.den * ScoreSum(idx)

\* ---- C1: every run ends either in an error with the output file as it was
\* before the run, or in success with the output file holding the complete
\* rendered document; never with a truncated or partly written file.
C1_AllOrNothing ==
    Finished =>
        \/ pc = "error" /\ fs_output = fs_before
        \/ pc = "done" /\ fs_output = File(html_report)

\* ---- C2: with the template file missing the run aborts with an I/O error
\* before any score mapping or chart is computed, and the output file is
\* neither created nor modified.
C2_MissingTemplateAborts ==
    (~template_file.exists /\ pc # "read_template") =>
        /\ pc = "error"
        /\ error = "FileNotFoundError"
        /\ categories = <<>> /\ means = <<>> /\ charts = <<>>
        /\ fs_output = fs_before

C2_Witness ==
    /\ ~template_file.exists
    /\ pc = "error"
    /\ Len(data.rows) > 0
    /\ fs_before = OldReport

\* ---- C3: each computed mapping maps every category that has a row matching
\* both the level and the track of its call to the arithmetic mean of the
\* scores of exactly those rows; rows of another level or track do not
\* contribute.
C3_MeanOfMatchingRows ==
    Aggregating => \A n \in 1..Len(means) :
        LET call == MeanCalls[n]
            m    == means[n].value
        IN  \A c \in CategoryLabels :
                MatchingIn(call.level, call.cargo, c) # {} =>
                    /\ c \in DOMAIN m
                    /\ IsMeanOf(m[c], MatchingIn(call.level, call.cargo, c))

C3_Witness ==
    /\ Aggregating
    /\ means # <<>>
    /\ Cardinality(MatchingIn("Junior", "ENGENHARIA DE DADOS", <<2>>)) = 2
    /\ means[1].value[<<2>>] = [num |-> 15, den |-> 1]

\* ---- C4: the keys of each computed mapping are among the categories of
\* the rows that pass both filters; a category with no matching row is never
\* a key, even when it occurs elsewhere in the table.
C4_KeysAmongMatchingCategories ==
    Aggregating => \A n \in 1..Len(means) :
        LET call == MeanCalls[n]
        IN  \A c \in DOMAIN means[n].value :
                MatchingIn(call.level, call.cargo, c) # {}

C4_Witness ==
    /\ Aggregating
    /\ Len(means) = Len(MeanCalls)
    /\ \E i \in 1..Len(data.rows) :
           /\ data.rows[i].CATEGORIA = <<2>>
           /\ data.rows[i].CARGO = "ENGENHARIA DE DADOS"
           /\ data.rows[i].NIVEL = "Pleno"
    /\ <<2>> \notin DOMAIN means[1].value
    /\ <<1, 2>> \in DOMAIN means[1].value

\* ---- C5: in every chart each of the two series has one value per category
\* of the shared ordering, in that order: the mapping's mean where the
\* category is a key of the source mapping and 0 where it is absent.
C5_SeriesAlignedZeroFilled ==
    Charting => \A n \in 1..Len(charts) :
        LET call == ChartCalls[n]
            fig  == charts[n].value.div
        IN  /\ Len(fig.traces) = 2
            /\ \A t \in 1..2 :
                   LET src == Local(means, IF t = 1 THEN call.data1 ELSE call.data2)
                       tr  == fig.traces[t]
                   IN  /\ tr.x = categories
                       /\ Len(tr.y) = Len(categories)
                       /\ \A k \in 1..Len(categories) :
                              tr.y[k] = IF categories[k] \in DOMAIN src
                                        THEN src[categories[k]] ELSE Zero

C5_Witness ==
    /\ Charting
    /\ Len(charts) = Len(ChartCalls)
    /\ \E k \in 1..Len(categories) :
           /\ categories[k] \in DOMAIN Local(means, "senior_analytics")
           /\ categories[k] \notin DOMAIN Local(means, "senior_data")
           /\ charts[5].value.div.traces[1].y[k] = Zero
           /\ charts[5].value.div.traces[2].y[k] # Zero

\* ---- C6: the category ordering is the lexicographically sorted sequence of
\* the distinct categories of the full table, without duplicates, and is the
\* same for every permutation of the rows.
RowOrders(n) == Permutations(1..n)

C6_SortedDistinctAnyOrder ==
    CategoriesComputed =>
        /\ \A i, j \in 1..Len(categories) :
               i < j => LexLess(categories[i], categories[j])
        /\ {categories[i] : i \in 1..Len(categories)}
               = {data.rows[i].CATEGORIA : i \in 1..Len(data.rows)}
        /\ \A p \in RowOrders(Len(data.rows)) :
               sorted(unique([i \in 1..Len(data.rows) |-> data.rows[p[i]].CATEGORIA]))
                   = categories

C6_Witness ==
    /\ CategoriesComputed
    /\ Len(data.rows) = 2
    /\ data.rows[1].CATEGORIA = <<2>>
    /\ data.rows[2].CATEGORIA = <<1, 2>>
    /\ categories = << <<1, 2>>, <<2>> >>

\* ---- C7 as stated: a placeholder that is not one of the five bound chart
\* names appears in the output document as its literal template syntax.
C7_UnboundPlaceholderKeptLiteral ==
    Rendered =>
        \A i \in 1..Len(template_content) :
            (template_content[i].kind = "var"
                 /\ template_content[i].value \notin ChartNames)
                => \E j \in 1..Len(html_report) : html_report[j] = template_content[i]

\* the tokens of a template that leave something in the rendered document,
\* and the position in the document of what token i leaves
Printed(tpl) ==
    {i \in 1..Len(tpl) : tpl[i].kind = "text" \/ tpl[i].value \in ChartNames}

PositionOf(tpl, i) == Cardinality({k \in Printed(tpl) : k <= i})

ChartNamed(name) ==
    LET n == CHOOSE n \in 1..Len(charts) : charts[n].var = name IN charts[n].value

\* ---- C7 as amended: the rendered document is the template with its text
\* unchanged, each of the five bound placeholders replaced by its own
\* chart's markup, and every other placeholder replaced by empty text.
C7_UnboundPlaceholderRendersEmpty ==
    Rendered =>
        /\ Len(html_report) = Cardinality(Printed(template_content))
        /\ \A i \in Printed(template_content) :
               LET tok   == template_content[i]
                   piece == html_report[PositionOf(template_content, i)]
               IN  IF tok.kind = "text" THEN piece = tok
                   ELSE piece = Markup(ChartNamed(tok.value))

C7_Witness ==
    /\ Rendered
    /\ \E i, j \in 1..Len(template_content) :
           /\ template_content[i] = Placeholder("extra_chart")
           /\ template_content[j] = Placeholder("senior_comparison_chart")
    /\ html_report = <<Markup(ChartNamed("senior_comparison_chart"))>>

\* the level a series name stands for, and the level a mapping was computed for
LevelNamed(name) == IF name = "Juniors" THEN "Junior" ELSE "Sênior"

LevelOf(mapping) ==
    LET n == CHOOSE n \in 1..Len(MeanCalls) : MeanCalls[n].var = mapping
    IN  MeanCalls[n].level

\* ---- C8: in each chart every series carries the name of the mapping it
\* plots; in charts 2 and 4 the series plotting the mid-level mapping carries
\* the mid-level name, not the entry-level name.
C8_SeriesNamedAfterMapping ==
    \A n \in 1..Len(charts) :
        LET call == ChartCalls[n]
            fig  == charts[n].value.div
        IN  /\ LevelNamed(fig.traces[1].name) = LevelOf(call.data1)
            /\ LevelNamed(fig.traces[2].name) = LevelOf(call.data2)

\* the five comparisons: (level, track) of the first and of the second series
Comparisons ==
    << [var |-> "junior_senior_chart_data",
        a |-> <<"Junior", "ENGENHARIA DE DADOS">>,
        b |-> <<"Sênior", "ENGENHARIA DE DADOS">>],
       [var |-> "pleno_senior_chart_data",
        a |-> <<"Pleno", "ENGENHARIA DE DADOS">>,
        b |-> <<"Sênior", "ENGENHARIA DE DADOS">>],
       [var |-> "junior_senior_chart_analytics",
        a |-> <<"Junior", "ENGENHARIA DE ANALYTICS">>,
        b |-> <<"Sênior", "ENGENHARIA DE ANALYTICS">>],
       [var |-> "pleno_senior_chart_analytics",
        a |-> <<"Pleno", "ENGENHARIA DE ANALYTICS">>,
        b |-> <<"Sênior", "ENGENHARIA DE ANALYTICS">>],
       [var |-> "senior_comparison_chart",
        a |-> <<"Sênior", "ENGENHARIA DE DADOS">>,
        b |-> <<"Sênior", "ENGENHARIA DE ANALYTICS">>] >>

\* the series y plots, over the labels x, the means of the (level, track) rows
Plots(x, y, filter) ==
    /\ Len(y) = Len(x)
    /\ \A k \in 1..Len(x) :
           LET idx == MatchingIn(filter[1], filter[2], x[k])
           IN  IF idx = {} THEN y[k] = Zero ELSE IsMeanOf(y[k], idx)

\* ---- C9: exactly five charts are built, in the stated order and with the
\* stated (first, second) mappings, all over the one category ordering
\* computed from the full table, and each chart's markup is bound to its
\* own placeholder name.
C9_FiveChartsInOrder ==
    /\ Len(charts) <= 5
    /\ pc \in {"render", "open", "write", "done"} =>
           /\ Len(charts) = 5
           /\ \A n \in 1..5 : charts[n].var = Comparisons[n].var
    /\ Charting =>
           {categories[i] : i \in 1..Len(categories)}
               = {data.rows[i].CATEGORIA : i \in 1..Len(data.rows)}
    /\ Charting => \A n \in 1..Len(charts) :
           LET fig == charts[n].value.div
           IN  /\ charts[n].var = Comparisons[n].var
               /\ fig.traces[1].x = categories /\ fig.traces[2].x = categories
               /\ Plots(categories, fig.traces[1].y, Comparisons[n].a)
               /\ Plots(categories, fig.traces[2].y, Comparisons[n].b)
    /\ Rendered =>
           \A i \in 1..Len(template_content), n \in 1..5 :
               template_content[i] = Placeholder(Comparisons[n].var) =>
                   html_report[PositionOf(template_content, i)] = Markup(charts[n].value)

C9_Witness ==
    /\ Rendered
    /\ template_content = StandardTemplate
    /\ Len(charts) = 5
    /\ Local(means, "junior_data") # Local(means, "pleno_data")
    /\ charts[1].value.div.traces[1].y # charts[2].value.div.traces[1].y
    /\ html_report[3] = Markup(charts[2].value)

\* ---- C10: for a table with the required columns and zero rows no step of
\* the computation fails: the six mappings are empty, no series holds a
\* non-zero value, and the report written at the output path has all five
\* placeholders filled.
C10_EmptyTableStillReports ==
    (data.columns = RequiredColumns /\ data.rows = <<>>) =>
        /\ error \in {"none", "FileNotFoundError", "TemplateSyntaxError", "OSError"}
        /\ \A n \in 1..Len(means) : DOMAIN means[n].value = {}
        /\ \A n \in 1..Len(charts), t \in 1..2 :
               LET y == charts[n].value.div.traces[t].y
               IN  \A k \in 1..Len(y) : y[k] = Zero
        /\ pc \in {"charts", "render", "open", "write", "done"}
               => Len(means) = Len(MeanCalls)
        /\ pc = "done" =>
               /\ Len(charts) = 5
               /\ fs_output = File(html_report)
               /\ \A i \in 1..Len(template_content) :
                      template_content[i].kind = "var"
                          /\ template_content[i].value \in ChartNames
                      => html_report[PositionOf(template_content, i)]
                             = Markup(ChartNamed(template_content[i].value))

C10_Witness ==
    /\ data.columns = RequiredColumns /\ data.rows = <<>>
    /\ pc = "done"
    /\ \E i \in 1..Len(template_content) :
           template_content[i] = Placeholder("pleno_senior_chart_data")
    /\ fs_output.content # <<>>

====
